---- MODULE Spec2Model ----
(***************************************************************************)
(* Model of the exec_ts tool adapter of agent0 (executeTypeScript) and of  *)
(* the pure functions it is built from: the host-environment filter, the   *)
(* JSON serialisation of the arguments and of the execution fault, and the *)
(* extraction of a JSON result from stdout.                                *)
(*                                                                         *)
(* Text is modelled by TLA+ strings, read character by character.          *)
(* An optional value (a TypeScript `T | undefined`) is a sequence of       *)
(* length 0 (undefined) or 1 (the value).                                  *)
(* A JavaScript value is a tagged tuple:                                   *)
(*   <<"null">>  <<"bool", b>>  <<"num", n>>  <<"str", s>>                 *)
(*   <<"obj", <<k1, v1>>, <<k2, v2>>, ...>>  (own keys in insertion order) *)
(***************************************************************************)
EXTENDS Integers, Sequences, FiniteSets, TLC

VARIABLES
    pc,          \* the await at which the invocation is suspended
    req,         \* the arguments of executeTypeScript
    hostEnv,     \* process.env of the host
    sbx,         \* the local `sbx`: <<>> is null, <<id>> a sandbox handle
    alive,       \* provider side: the sandbox exists and has not been killed
    dir,         \* provider side: the entries of /home/user in the sandbox
    calls,       \* provider calls issued so far, in order
    runEnvs,     \* the `envs` option handed to runCode (optional)
    idx,         \* position of the running for-loop (files / fileList)
    fileList,    \* the listing being iterated
    execution,   \* local `execution`, what runCode resolved with (optional)
    stdout,      \* local `stdout`
    stderr,      \* local `stderr`
    result,      \* local `result` (optional)
    error,       \* local `error` (optional)
    outputFiles, \* local `outputFiles`: <<name, content>> in insertion order
    ret,         \* the completion value of try/catch (optional ExecResult)
    retPlain,    \* the same in the second copy of executeTypeScript (lines 260-386)
    outcome,     \* how the promise settled: "pending", "returned", "thrown"
    thrown,      \* the rejection reason when outcome = "thrown"
    failed,      \* which provider operation threw, and with what message
    created,     \* provider side: for each sandbox created, the invocation it is for
    cur,         \* the invocation whose continuation runs; its locals are loaded
    parked,      \* the locals of the other invocation, suspended at an await
    memory,      \* module `memory` of the agent: the store chosen at load (optional)
    sessionFiles,\* module `sessionFiles` of the skills: <<path, content>> in Map order
    fsLog        \* the calls made on the skills' `fs`, with what each returned

vars == <<pc, req, hostEnv, sbx, alive, dir, calls, runEnvs, idx, fileList,
          execution, stdout, stderr, result, error, outputFiles, ret, retPlain, outcome,
          thrown, failed, created, cur, parked, memory, sessionFiles, fsLog>>

\* the local variables of the running invocation, with the state of its sandbox
Locals ==
    [pc |-> pc, req |-> req, sbx |-> sbx, alive |-> alive, dir |-> dir,
     calls |-> calls, runEnvs |-> runEnvs, idx |-> idx, fileList |-> fileList,
     execution |-> execution, stdout |-> stdout, stderr |-> stderr,
     result |-> result, error |-> error, outputFiles |-> outputFiles, ret |-> ret,
     retPlain |-> retPlain,
     outcome |-> outcome, thrown |-> thrown, failed |-> failed]

-----------------------------------------------------------------------------
(* Optional values *)

None == <<>>

Some(v) == <<v>>

IsSome(o) == Len(o) = 1

Get(o) == o[1]

-----------------------------------------------------------------------------
(* String primitives of the JavaScript runtime *)

CharAt(s, i) == SubSeq(s, i, i)

endsWith(s, suffix) ==
    /\ Len(s) >= Len(suffix)
    /\ SubSeq(s, Len(s) - Len(suffix) + 1, Len(s)) = suffix

startsWith(s, prefix) ==
    /\ Len(s) >= Len(prefix)
    /\ SubSeq(s, 1, Len(prefix)) = prefix

\* Array.prototype.join
RECURSIVE join(_, _)
join(arr, sep) ==
    IF Len(arr) = 0 THEN ""
    ELSE IF Len(arr) = 1 THEN arr[1]
    ELSE arr[1] \o sep \o join(Tail(arr), sep)

\* position of the first occurrence of the character c in s at or after i, 0 if none
RECURSIVE indexOf(_, _, _)
indexOf(s, c, i) ==
    IF i > Len(s) THEN 0
    ELSE IF CharAt(s, i) = c THEN i
    ELSE indexOf(s, c, i + 1)

\* position of the last occurrence of the character c in s at or before i, 0 if none
RECURSIVE lastIndexOf(_, _, _)
lastIndexOf(s, c, i) ==
    IF i < 1 THEN 0
    ELSE IF CharAt(s, i) = c THEN i
    ELSE lastIndexOf(s, c, i - 1)

\* `a || b` on strings: the empty string is falsy
OrElse(a, b) == IF a = "" THEN b ELSE a

-----------------------------------------------------------------------------
(* The adapter's own text processing *)

\* s holds sub somewhere
contains(s, sub) ==
    \E i \in 1..(Len(s) - Len(sub) + 1) : SubSeq(s, i, i + Len(sub) - 1) = sub

\* a filter that holds back the host's own service credentials
Forwarded_NotOwnKeys(key) ==
    /\ key \notin {"E2B_API_KEY", "OPENROUTER_API_KEY"}
    /\ \/ endsWith(key, "_API_KEY")
       \/ startsWith(key, "API_KEY_")
       \/ startsWith(key, "BASE_URL_")

\* a filter that tests with includes() instead of endsWith()/startsWith()
Forwarded_Includes(key) ==
    \/ contains(key, "_API_KEY")
    \/ contains(key, "API_KEY_")
    \/ contains(key, "BASE_URL_")

\* the `if` of the process.env loop: which host variables are passed through
Forwarded(key) ==
    \/ endsWith(key, "_API_KEY")
    \/ startsWith(key, "API_KEY_")
    \/ startsWith(key, "BASE_URL_")

\* the match of the lazy /\{[\s\S]*?\}/: the leftmost '{' and the first '}' after it
jsonMatch_Lazy(text) ==
    LET i == indexOf(text, "{", 1)
        j == IF i > 0 THEN indexOf(text, "}", i + 1) ELSE 0
    IN IF i > 0 /\ j > i THEN Some(SubSeq(text, i, j)) ELSE None

\* the match of /\{[\s\S]*\}/ in text: the leftmost '{' and, greedily, the last
\* '}' after it; None when the regular expression does not match
jsonMatch(text) ==
    LET i == indexOf(text, "{", 1)
        j == lastIndexOf(text, "}", Len(text))
    IN IF i > 0 /\ j > i THEN Some(SubSeq(text, i, j)) ELSE None

\* the output-file filter of the listing loop
excludeFiles == {".bashrc", ".bash_logout", ".profile", "package.json",
                 "package-lock.json"}

\* a filter that lets the program's own source files through
Collected_KeepTs(file) ==
    /\ file.type = "file"
    /\ file.name \notin excludeFiles

Collected(file) ==
    /\ file.type = "file"
    /\ ~endsWith(file.name, ".ts")
    /\ file.name \notin excludeFiles

-----------------------------------------------------------------------------
(* JavaScript values and truthiness *)

Null == <<"null">>

Bool(b) == <<"bool", b>>

Num(n) == <<"num", n>>

Str(s) == <<"str", s>>

Obj(members) == <<"obj", members>>

Arr(elements) == <<"arr", elements>>

\* ToBoolean of a value, as in `if (args)` and `execution.error ? ... : ...`
Truthy(v) ==
    CASE v[1] = "null" -> FALSE
      [] v[1] = "bool" -> v[2]
      [] v[1] = "num"  -> v[2] # 0
      [] v[1] = "str"  -> v[2] # ""
      [] OTHER         -> TRUE

\* truthiness of an optional value: undefined is falsy
TruthyOpt(o) == IsSome(o) /\ Truthy(Get(o))

-----------------------------------------------------------------------------
(* JSON.stringify(value, null, gap).  gap = "" is the compact form of      *)
(* JSON.stringify(value); gap = "  " is JSON.stringify(value, null, 2).    *)
(* Strings hold no quote, backslash or control character, so quoting adds  *)
(* the two quotes only.                                                    *)

Quote(s) == "\"" \o s \o "\""

RECURSIVE stringify(_, _, _)
stringify(v, gap, indent) ==
    LET inner == indent \o gap
        sep   == IF gap = "" THEN "," ELSE ",\n" \o inner
        open  == IF gap = "" THEN "" ELSE "\n" \o inner
        close == IF gap = "" THEN "" ELSE "\n" \o indent
        colon == IF gap = "" THEN ":" ELSE ": "
    IN CASE v[1] = "null" -> "null"
         [] v[1] = "bool" -> IF v[2] THEN "true" ELSE "false"
         [] v[1] = "num"  -> ToString(v[2])
         [] v[1] = "str"  -> Quote(v[2])
         [] v[1] = "obj"  ->
              IF Len(v[2]) = 0 THEN "{}"
              ELSE "{" \o open
                   \o join([i \in 1..Len(v[2]) |->
                              Quote(v[2][i][1]) \o colon
                              \o stringify(v[2][i][2], gap, inner)], sep)
                   \o close \o "}"
         [] v[1] = "arr"  ->
              IF Len(v[2]) = 0 THEN "[]"
              ELSE "[" \o open
                   \o join([i \in 1..Len(v[2]) |->
                              stringify(v[2][i], gap, inner)], sep)
                   \o close \o "]"

-----------------------------------------------------------------------------
(* JSON.parse.  A parse step returns [ok, val, next]: whether a value was  *)
(* read at position i, the value, and the position after it.  Numbers are  *)
(* integers and strings have no escapes (the texts of the model hold no    *)
(* '.', 'e' or backslash).                                                 *)

Fail == [ok |-> FALSE, val |-> Null, next |-> 0]

Ok(v, n) == [ok |-> TRUE, val |-> v, next |-> n]

IsWs(c) == c = " " \/ c = "\n" \/ c = "\t" \/ c = "\r"

RECURSIVE skipWs(_, _)
skipWs(s, i) ==
    IF i <= Len(s) /\ IsWs(CharAt(s, i)) THEN skipWs(s, i + 1) ELSE i

Digits == "0123456789"

IsDigit(c) == Len(c) = 1 /\ indexOf(Digits, c, 1) > 0

DigitVal(c) == indexOf(Digits, c, 1) - 1

\* the digits from position i on, folded into acc
RECURSIVE parseDigits(_, _, _)
parseDigits(s, i, acc) ==
    IF i <= Len(s) /\ IsDigit(CharAt(s, i))
    THEN parseDigits(s, i + 1, acc * 10 + DigitVal(CharAt(s, i)))
    ELSE Ok(Num(acc), i)

\* int = "0" | digit1-9 digits, with an optional leading minus
parseNumber(s, i) ==
    LET neg == i <= Len(s) /\ CharAt(s, i) = "-"
        j   == IF neg THEN i + 1 ELSE i
    IN IF ~(j <= Len(s) /\ IsDigit(CharAt(s, j))) THEN Fail
       ELSE LET r == IF CharAt(s, j) = "0" THEN Ok(Num(0), j + 1)
                     ELSE parseDigits(s, j, 0)
            IN IF neg THEN Ok(Num(0 - r.val[2]), r.next) ELSE r

\* a string literal opening at position i; a raw line break inside it is an error
parseString(s, i) ==
    IF ~(i <= Len(s) /\ CharAt(s, i) = "\"") THEN Fail
    ELSE LET j == indexOf(s, "\"", i + 1)
         IN IF j = 0 THEN Fail
            ELSE LET body == SubSeq(s, i + 1, j - 1)
                 IN IF indexOf(body, "\n", 1) > 0 \/ indexOf(body, "\t", 1) > 0
                       \/ indexOf(body, "\r", 1) > 0
                    THEN Fail
                    ELSE Ok(Str(body), j + 1)

\* own property assignment: a repeated key keeps its place and takes the new value
RECURSIVE setKey(_, _, _)
setKey(members, k, v) ==
    IF Len(members) = 0 THEN <<<<k, v>>>>
    ELSE IF members[1][1] = k THEN <<<<k, v>>>> \o Tail(members)
    ELSE <<members[1]>> \o setKey(Tail(members), k, v)

\* the literal lit stands at position i of s
matchAt(s, i, lit) ==
    /\ i + Len(lit) - 1 <= Len(s)
    /\ SubSeq(s, i, i + Len(lit) - 1) = lit

RECURSIVE parseValue(_, _)
RECURSIVE parseMembers(_, _, _)
RECURSIVE parseElements(_, _, _)

\* after '{' or ',': "key" : value, then ',' or '}'
parseMembers(s, i, acc) ==
    LET k == parseString(s, skipWs(s, i))
    IN IF ~k.ok THEN Fail
       ELSE LET c == skipWs(s, k.next)
            IN IF ~(c <= Len(s) /\ CharAt(s, c) = ":") THEN Fail
               ELSE LET v == parseValue(s, skipWs(s, c + 1))
                    IN IF ~v.ok THEN Fail
                       ELSE LET e    == skipWs(s, v.next)
                                acc2 == setKey(acc, k.val[2], v.val)
                            IN IF e > Len(s) THEN Fail
                               ELSE IF CharAt(s, e) = "}" THEN Ok(Obj(acc2), e + 1)
                               ELSE IF CharAt(s, e) = "," THEN parseMembers(s, e + 1, acc2)
                               ELSE Fail

\* after '[' or ',': value, then ',' or ']'
parseElements(s, i, acc) ==
    LET v == parseValue(s, skipWs(s, i))
    IN IF ~v.ok THEN Fail
       ELSE LET e    == skipWs(s, v.next)
                acc2 == Append(acc, v.val)
            IN IF e > Len(s) THEN Fail
               ELSE IF CharAt(s, e) = "]" THEN Ok(Arr(acc2), e + 1)
               ELSE IF CharAt(s, e) = "," THEN parseElements(s, e + 1, acc2)
               ELSE Fail

parseValue(s, i) ==
    IF i > Len(s) THEN Fail
    ELSE LET c == CharAt(s, i)
         IN CASE c = "{" ->
                   LET j == skipWs(s, i + 1)
                   IN IF j <= Len(s) /\ CharAt(s, j) = "}" THEN Ok(Obj(<<>>), j + 1)
                      ELSE parseMembers(s, i + 1, <<>>)
              [] c = "[" ->
                   LET j == skipWs(s, i + 1)
                   IN IF j <= Len(s) /\ CharAt(s, j) = "]" THEN Ok(Arr(<<>>), j + 1)
                      ELSE parseElements(s, i + 1, <<>>)
              [] c = "\"" -> parseString(s, i)
              [] c = "t" -> IF matchAt(s, i, "true")
                            THEN Ok(Bool(TRUE), i + 4) ELSE Fail
              [] c = "f" -> IF matchAt(s, i, "false")
                            THEN Ok(Bool(FALSE), i + 5) ELSE Fail
              [] c = "n" -> IF matchAt(s, i, "null")
                            THEN Ok(Null, i + 4) ELSE Fail
              [] OTHER -> parseNumber(s, i)

\* JSON.parse(text): the value when the whole text is one JSON value, None when
\* JSON.parse throws a SyntaxError
JSONparse(text) ==
    LET r == parseValue(text, skipWs(text, 1))
    IN IF r.ok /\ skipWs(text, r.next) = Len(text) + 1 THEN Some(r.val) ELSE None

\* an extraction that parses the span up to the first '}'
extractResult_Shortest(text) ==
    LET m == jsonMatch_Lazy(text)
    IN IF IsSome(m) THEN JSONparse(Get(m)) ELSE None

\* the try block around the extraction: `result` stays undefined when there is
\* no match or when JSON.parse throws
extractResult(text) ==
    LET m == jsonMatch(text)
    IN IF IsSome(m) THEN JSONparse(Get(m)) ELSE None


-----------------------------------------------------------------------------
(* Bounds and the small sets the inputs are drawn from *)

MaxDeps == 2

MaxFiles == 1

\* sequences over S of length at most n
BoundedSeq(S, n) == UNION {[1..k -> S] : k \in 0..n}

\* sequences without repetition (the keys of an object are unique)
Injective(q) == \A i, j \in 1..Len(q) : q[i] = q[j] => i = j

Programs == {"", "main()"}

Packages == {"axios", "zod"}

Paths == {"data.txt", "in.ts", "sub/x.csv"}

ContentOf(path) == "<" \o path \o ">"

DependencyChoices == {None} \cup {Some(d) : d \in BoundedSeq(Packages, MaxDeps)}

FileChoices ==
    {None} \cup
    {Some([i \in 1..Len(q) |-> <<q[i], ContentOf(q[i])>>]) :
        q \in {r \in BoundedSeq(Paths, MaxFiles) : Injective(r)}}

ArgsObject == Obj(<< <<"n", Num(3)>>, <<"tag", Str("x")>> >>)

ArgsChoices ==
    {None, Some(Null), Some(Num(0)), Some(Bool(FALSE)), Some(Str("")),
     Some(Num(3)), Some(ArgsObject)}

Requests ==
    [code : Programs, dependencies : DependencyChoices, files : FileChoices,
     args : ArgsChoices]

\* process.env of the host, a map from names to strings
EnvExample ==
    [k \in {"SECRET_TOKEN", "MY_API_KEY", "API_KEY_FOO", "BASE_URL_BAR"} |->
        CASE k = "SECRET_TOKEN" -> "x"
          [] k = "MY_API_KEY"   -> "y"
          [] k = "API_KEY_FOO"  -> "z"
          [] OTHER              -> "w"]

EnvServices ==
    [k \in {"E2B_API_KEY", "OPENROUTER_API_KEY", "NODE_ENV", "ARGS_JSON", "PATH"} |->
        CASE k = "E2B_API_KEY"        -> "e2b"
          [] k = "OPENROUTER_API_KEY" -> ""
          [] k = "NODE_ENV"           -> "production"
          [] k = "ARGS_JSON"          -> "host"
          [] OTHER                    -> "/bin"]

EnvEmpty == [k \in {} |-> ""]

HostEnvs == {EnvExample, EnvServices, EnvEmpty}

\* what the provider may answer to runCode: the Execution and the files the
\* program left in its working directory
StdoutExample == <<"log line\n", "{\"ok\":true,\"data\":5}", "\ntrailing">>

Fault == Obj(<< <<"name", Str("Error")>>, <<"value", Str("crash")>>,
                <<"traceback", Str("at main")>> >>)

Executions ==
    { [stdout |-> <<>>, stderr |-> <<>>, error |-> None],
      [stdout |-> StdoutExample, stderr |-> <<>>, error |-> None],
      [stdout |-> <<"no json here">>, stderr |-> <<"warn: ", "slow">>, error |-> None],
      [stdout |-> <<"{\"a\":1}", " and {\"b\":2}">>, stderr |-> <<>>, error |-> None],
      [stdout |-> StdoutExample, stderr |-> <<"trace">>, error |-> Some(Fault)],
      [stdout |-> <<"partial {">>, stderr |-> <<"trace">>, error |-> Some(Fault)] }

Effects ==
    { <<>>,
      << <<"report.csv", "a,b">> >>,
      << <<"program.ts", "code">>, <<"report.csv", "a,b">> >> }

\* the message of the Error a provider call rejects with
Errors(op) == {"", op \o " failed"}

-----------------------------------------------------------------------------
(* The sandbox provider, as the adapter uses it *)

Call(op, a, b) == [op |-> op, a |-> a, b |-> b]

Entry(name, type, content) == [name |-> name, type |-> type, content |-> content]

\* /home/user of a fresh sandbox
FreshDir ==
    << Entry(".bashrc", "file", "rc"), Entry(".bash_logout", "file", "lo"),
       Entry(".profile", "file", "pr") >>

\* the entry named name is replaced by e, or e is added
RECURSIVE putEntry(_, _)
putEntry(d, e) ==
    IF Len(d) = 0 THEN <<e>>
    ELSE IF d[1].name = e.name THEN <<e>> \o Tail(d)
    ELSE <<d[1]>> \o putEntry(Tail(d), e)

\* a write that puts every file into /home/user under its last path component
writeEntry_Flat(d, path, content) ==
    LET slash == lastIndexOf(path, "/", Len(path))
    IN putEntry(d, Entry(SubSeq(path, slash + 1, Len(path)), "file", content))

\* files.write("/home/user/" + path, content): a path with a '/' makes a
\* directory of its first component, any other path a file of /home/user
writeEntry(d, path, content) ==
    LET slash == indexOf(path, "/", 1)
    IN IF slash > 0 THEN putEntry(d, Entry(SubSeq(path, 1, slash - 1), "dir", ""))
       ELSE putEntry(d, Entry(path, "file", content))

\* `npm install` leaves its manifest, lockfile and node_modules behind
npmInstallDir(d) ==
    putEntry(putEntry(putEntry(d, Entry("package.json", "file", "{}")),
                      Entry("package-lock.json", "file", "{}")),
             Entry("node_modules", "dir", ""))

RECURSIVE writeAll(_, _)
writeAll(d, ws) ==
    IF Len(ws) = 0 THEN d
    ELSE writeAll(writeEntry(d, ws[1][1], ws[1][2]), Tail(ws))

\* the content of the file named name in d
RECURSIVE contentOf(_, _)
contentOf(d, name) ==
    IF Len(d) = 0 THEN ""
    ELSE IF d[1].name = name THEN d[1].content
    ELSE contentOf(Tail(d), name)


-----------------------------------------------------------------------------
(* executeTypeScript, one step per provider call that is awaited *)

\* a copy of process.env that is not filtered
passThrough_All(env) == [k \in DOMAIN env |-> OrElse(env[k], "")]

\* the filtered copy of process.env, before the arguments are added
passThrough(env) ==
    [k \in {n \in DOMAIN env : Forwarded(n)} |-> OrElse(env[k], "")]

\* an ARGS_JSON made with String(args) for a string argument
envVars_String(env, args) ==
    LET base == passThrough(env)
    IN IF TruthyOpt(args)
       THEN [k \in DOMAIN base \cup {"ARGS_JSON"} |->
                IF k = "ARGS_JSON"
                THEN (IF Get(args)[1] = "str" THEN Get(args)[2]
                      ELSE stringify(Get(args), "", ""))
                ELSE base[k]]
       ELSE base

\* the `envs` option of runCode: the pass-through variables and, `if (args)`,
\* ARGS_JSON
envVars(env, args) ==
    LET base == passThrough(env)
    IN IF TruthyOpt(args)
       THEN [k \in DOMAIN base \cup {"ARGS_JSON"} |->
                IF k = "ARGS_JSON" THEN stringify(Get(args), "", "") ELSE base[k]]
       ELSE base

\* an ExecResult; files and result and error are optional
ExecResult(out, err, files, res, e) ==
    [stdout |-> out, stderr |-> err, files |-> files, result |-> res, error |-> e]

\* kill is started but not awaited: the call settles while the sandbox lives
Finally_NoAwait(c, handle) ==
    /\ calls' = (IF IsSome(handle) THEN Append(c, Call("kill", "", "")) ELSE c)
    /\ pc' = "done"
    /\ outcome' = "returned"

\* the `finally` block: kill is awaited when sbx is set, else the call settles
Finally(c, handle) ==
    IF IsSome(handle)
    THEN /\ calls' = Append(c, Call("kill", "", ""))
         /\ pc' = "kill"
         /\ outcome' = "pending"
    ELSE /\ calls' = c
         /\ pc' = "done"
         /\ outcome' = "returned"

\* a catch block without the `|| "unknown error"` fallback
caught_NoFallback(message) ==
    Some(ExecResult("", message, None, None, Some(message)))

\* the ExecResult of the `catch (err)` block
caught(message) ==
    Some(ExecResult("", OrElse(message, "unknown error"), None, None,
                    Some(OrElse(message, "unknown error"))))

\* a second copy whose catch block leaves stderr empty
caughtPlain_NoStderr(message) ==
    Some(ExecResult("", "", None, None, Some(OrElse(message, "Unknown error"))))

\* the ExecResult of the `catch (err)` block of the second copy
caughtPlain(message) ==
    Some(ExecResult("", OrElse(message, "Unknown error"), None, None,
                    Some(OrElse(message, "Unknown error"))))

\* a catch block that reports `result: null` next to the error
Catch_NullResult(c, handle, op, message) ==
    /\ ret' = Some(ExecResult("", OrElse(message, "unknown error"), None, Some(Null),
                              Some(OrElse(message, "unknown error"))))
    /\ retPlain' = caughtPlain(message)
    /\ failed' = Append(failed, <<op, message>>)
    /\ IF IsSome(handle)
       THEN /\ calls' = Append(c, Call("kill", "", ""))
            /\ pc' = "kill"
            /\ outcome' = "pending"
       ELSE /\ calls' = c
            /\ pc' = "done"
            /\ outcome' = "returned"

\* a catch block that returns without reaching the cleanup (kill placed at the
\* end of `try` instead of in `finally`)
Catch_NoCleanup(c, handle, op, message) ==
    /\ ret' = caught(message)
    /\ retPlain' = caughtPlain(message)
    /\ failed' = Append(failed, <<op, message>>)
    /\ calls' = c
    /\ pc' = "done"
    /\ outcome' = "returned"

\* the `catch (err)` block followed by `finally`
Catch(c, handle, op, message) ==
    /\ ret' = caught(message)
    /\ retPlain' = caughtPlain(message)
    /\ failed' = Append(failed, <<op, message>>)
    /\ Finally(c, handle)

\* a return that passes outputFiles on as it is, empty or not
Return_EmptyMap(c, out) ==
    /\ ret' = Some(ExecResult(stdout, stderr, Some(out), result, error))
    /\ retPlain' = ret'
    /\ Finally(c, sbx)

\* the `return` of the try block followed by `finally`
Return(c, out) ==
    /\ ret' = Some(ExecResult(stdout, stderr,
                              IF Len(out) > 0 THEN Some(out) ELSE None,
                              result, error))
    /\ retPlain' = ret'
    /\ Finally(c, sbx)

\* build the environment and call runCode
BeginRun(c) ==
    /\ runEnvs' = Some(envVars(hostEnv, req.args))
    /\ calls' = Append(c, Call("runCode", req.code, "ts"))
    /\ pc' = "run"
    /\ idx' = 0

\* the loop over Object.entries(files) from its i-th entry on
BeginWrite(c, i) ==
    IF IsSome(req.files) /\ i <= Len(Get(req.files))
    THEN /\ calls' = Append(c, Call("files.write",
                                    "/home/user/" \o Get(req.files)[i][1],
                                    Get(req.files)[i][2]))
         /\ pc' = "write"
         /\ idx' = i
         /\ UNCHANGED runEnvs
    ELSE BeginRun(c)

\* one install command per dependency instead of one batch: only the last
\* package is named by the command that is awaited
BeginInstall_LastOnly(c) ==
    IF IsSome(req.dependencies) /\ Len(Get(req.dependencies)) > 0
    THEN /\ calls' = Append(c, Call("commands.run",
                                    "npm install "
                                    \o Get(req.dependencies)[Len(Get(req.dependencies))],
                                    ""))
         /\ pc' = "install"
         /\ UNCHANGED <<idx, runEnvs>>
    ELSE BeginWrite(c, 1)

\* `if (dependencies && dependencies.length > 0)`
BeginInstall(c) ==
    IF IsSome(req.dependencies) /\ Len(Get(req.dependencies)) > 0
    THEN /\ calls' = Append(c, Call("commands.run",
                                    "npm install " \o join(Get(req.dependencies), " "),
                                    ""))
         /\ pc' = "install"
         /\ UNCHANGED <<idx, runEnvs>>
    ELSE BeginWrite(c, 1)

\* the first entry of the listing fl at or after i that is collected, 0 if none
RECURSIVE nextCollected(_, _)
nextCollected(fl, i) ==
    IF i > Len(fl) THEN 0
    ELSE IF Collected(fl[i]) THEN i
    ELSE nextCollected(fl, i + 1)

\* the loop over fileList from its i-th entry on, then the return
BeginRead(c, fl, i, out) ==
    LET n == nextCollected(fl, i)
    IN IF n > 0
       THEN /\ calls' = Append(c, Call("files.read", "/home/user/" \o fl[n].name, ""))
            /\ pc' = "read"
            /\ idx' = n
            /\ UNCHANGED <<ret, retPlain, outcome>>
       ELSE /\ idx' = 0
            /\ Return(c, out)

\* the locals of an invocation that has not been made
NotStarted ==
    [pc |-> "idle",
     req |-> [code |-> "", dependencies |-> None, files |-> None, args |-> None],
     sbx |-> None, alive |-> FALSE, dir |-> <<>>, calls |-> <<>>, runEnvs |-> None,
     idx |-> 0, fileList |-> <<>>, execution |-> None, stdout |-> "", stderr |-> "",
     result |-> None, error |-> None, outputFiles |-> <<>>, ret |-> None,
     retPlain |-> None,
     outcome |-> "pending", thrown |-> "", failed |-> <<>>]

Init ==
    /\ pc = "idle"
    /\ hostEnv \in HostEnvs
    /\ req = [code |-> "", dependencies |-> None, files |-> None, args |-> None]
    /\ sbx = None
    /\ alive = FALSE
    /\ dir = <<>>
    /\ calls = <<>>
    /\ runEnvs = None
    /\ idx = 0
    /\ fileList = <<>>
    /\ execution = None
    /\ stdout = ""
    /\ stderr = ""
    /\ result = None
    /\ error = None
    /\ outputFiles = <<>>
    /\ ret = None
    /\ retPlain = None
    /\ outcome = "pending"
    /\ thrown = ""
    /\ failed = <<>>
    /\ created = <<>>
    /\ cur = 1
    /\ parked = NotStarted
    /\ memory = None
    /\ sessionFiles = <<>>
    /\ fsLog = <<>>

\* exec_ts.execute: executeTypeScript is entered with a request of R and
\* Sandbox.create is awaited
InvokeWith(R) ==
    /\ pc = "idle"
    /\ \E r \in R : req' = r
    /\ calls' = Append(calls, Call("Sandbox.create", "30000", ""))
    /\ pc' = "create"
    /\ UNCHANGED <<memory, sessionFiles, fsLog, created, cur, parked, hostEnv, execution, sbx, alive, dir, runEnvs,
                   idx, fileList,
                   stdout, stderr, result, error, outputFiles, ret, retPlain, outcome,
                   thrown, failed>>

Invoke == InvokeWith(Requests)

CreateOk ==
    /\ pc = "create"
    /\ sbx' = Some(Len(created) + 1)
    /\ created' = Append(created, cur)
    /\ alive' = TRUE
    /\ dir' = FreshDir
    /\ BeginInstall(calls)
    /\ UNCHANGED <<memory, sessionFiles, fsLog, cur, parked, req, hostEnv, execution, fileList, stdout, stderr, result, error,
                   outputFiles, ret, retPlain, outcome, thrown, failed>>

\* a `finally` that calls kill whether or not a sandbox was made
CreateFail_Kills ==
    /\ pc = "create"
    /\ \E m \in Errors("create") : Catch(calls, Some(0), "create", m)
    /\ UNCHANGED <<memory, sessionFiles, fsLog, created, cur, parked,
                   req, hostEnv, execution, sbx, alive, dir, runEnvs, idx, fileList, stdout,
                   stderr, result, error, outputFiles, thrown>>

CreateFail ==
    /\ pc = "create"
    /\ \E m \in Errors("create") : Catch(calls, None, "create", m)
    /\ UNCHANGED <<memory, sessionFiles, fsLog, created, cur, parked,
                   req, hostEnv, execution, sbx, alive, dir, runEnvs, idx, fileList, stdout,
                   stderr, result, error, outputFiles, thrown>>

InstallOk ==
    /\ pc = "install"
    /\ dir' = npmInstallDir(dir)
    /\ BeginWrite(calls, 1)
    /\ UNCHANGED <<memory, sessionFiles, fsLog, created, cur, parked,
                   req, hostEnv, execution, sbx, alive, fileList, stdout, stderr, result,
                   error, outputFiles, ret, retPlain, outcome, thrown, failed>>

InstallFail ==
    /\ pc = "install"
    /\ \E m \in Errors("install") : Catch(calls, sbx, "install", m)
    /\ UNCHANGED <<memory, sessionFiles, fsLog, created, cur, parked,
                   req, hostEnv, execution, sbx, alive, dir, runEnvs, idx, fileList, stdout,
                   stderr, result, error, outputFiles, thrown>>

WriteOk ==
    /\ pc = "write"
    /\ dir' = writeEntry(dir, Get(req.files)[idx][1], Get(req.files)[idx][2])
    /\ BeginWrite(calls, idx + 1)
    /\ UNCHANGED <<memory, sessionFiles, fsLog, created, cur, parked,
                   req, hostEnv, execution, sbx, alive, fileList, stdout, stderr, result,
                   error, outputFiles, ret, retPlain, outcome, thrown, failed>>

WriteFail ==
    /\ pc = "write"
    /\ \E m \in Errors("write") : Catch(calls, sbx, "write", m)
    /\ UNCHANGED <<memory, sessionFiles, fsLog, created, cur, parked,
                   req, hostEnv, execution, sbx, alive, dir, runEnvs, idx, fileList, stdout,
                   stderr, result, error, outputFiles, thrown>>

\* a runCode whose reported fault is thrown into the catch block
RunReturnWith_FaultThrown(E, F) ==
    /\ pc = "run"
    /\ \E e \in E, effect \in F :
          /\ execution' = Some(e)
          /\ dir' = writeAll(dir, effect)
          /\ IF TruthyOpt(e.error)
             THEN /\ Catch(calls, sbx, "runCode", "crash")
                  /\ UNCHANGED <<stdout, stderr, error, result>>
             ELSE /\ stdout' = join(e.stdout, "")
                  /\ stderr' = join(e.stderr, "")
                  /\ error' = None
                  /\ result' = extractResult(join(e.stdout, ""))
                  /\ calls' = Append(calls, Call("files.list", "/home/user", ""))
                  /\ pc' = "list"
                  /\ UNCHANGED <<ret, retPlain, outcome, failed>>
    /\ outputFiles' = <<>>
    /\ UNCHANGED <<memory, sessionFiles, fsLog, created, cur, parked,
                   req, hostEnv, sbx, alive, runEnvs, idx, fileList, thrown>>

\* runCode resolves with an Execution of E, the program having left the files
\* of an effect of F: output is joined, the fault is stringified, the result is
\* extracted and files.list is awaited
RunReturnWith(E, F) ==
    /\ pc = "run"
    /\ \E e \in E, effect \in F :
          /\ execution' = Some(e)
          /\ dir' = writeAll(dir, effect)
          /\ stdout' = join(e.stdout, "")
          /\ stderr' = join(e.stderr, "")
          /\ error' = IF TruthyOpt(e.error)
                      THEN Some(stringify(Get(e.error), "  ", ""))
                      ELSE None
          /\ result' = extractResult(join(e.stdout, ""))
    /\ outputFiles' = <<>>
    /\ calls' = Append(calls, Call("files.list", "/home/user", ""))
    /\ pc' = "list"
    /\ UNCHANGED <<memory, sessionFiles, fsLog, created, cur, parked,
                   req, hostEnv, sbx, alive, runEnvs, idx, fileList, ret, retPlain, outcome,
                   thrown, failed>>

RunReturn == RunReturnWith(Executions, Effects)

\* a runCode that is tried a second time after its first failure
RunThrow_Retry ==
    /\ pc = "run"
    /\ \E m \in Errors("runCode") :
          IF \A i \in 1..Len(failed) : failed[i][1] # "runCode"
          THEN /\ calls' = Append(calls, Call("runCode", req.code, "ts"))
               /\ failed' = Append(failed, <<"runCode", m>>)
               /\ UNCHANGED <<pc, ret, retPlain, outcome>>
          ELSE Catch(calls, sbx, "runCode", m)
    /\ UNCHANGED <<memory, sessionFiles, fsLog, created, cur, parked,
                   req, hostEnv, execution, sbx, alive, dir, runEnvs, idx, fileList, stdout,
                   stderr, result, error, outputFiles, thrown>>

RunThrow ==
    /\ pc = "run"
    /\ \E m \in Errors("runCode") : Catch(calls, sbx, "runCode", m)
    /\ UNCHANGED <<memory, sessionFiles, fsLog, created, cur, parked,
                   req, hostEnv, execution, sbx, alive, dir, runEnvs, idx, fileList, stdout,
                   stderr, result, error, outputFiles, thrown>>

ListOk ==
    /\ pc = "list"
    /\ fileList' = dir
    /\ BeginRead(calls, dir, 1, outputFiles)
    /\ UNCHANGED <<memory, sessionFiles, fsLog, created, cur, parked,
                   req, hostEnv, execution, sbx, alive, dir, runEnvs, stdout, stderr, result,
                   error, outputFiles, thrown, failed>>

\* the inner catch swallows the error and the function returns
ListFail ==
    /\ pc = "list"
    /\ failed' = Append(failed, <<"list", "list failed">>)
    /\ idx' = 0
    /\ Return(calls, outputFiles)
    /\ UNCHANGED <<memory, sessionFiles, fsLog, created, cur, parked,
                   req, hostEnv, execution, sbx, alive, dir, runEnvs, fileList, stdout,
                   stderr, result, error, outputFiles, thrown>>

ReadOk ==
    /\ pc = "read"
    /\ LET out == setKey(outputFiles, fileList[idx].name,
                         contentOf(dir, fileList[idx].name))
       IN /\ outputFiles' = out
          /\ BeginRead(calls, fileList, idx + 1, out)
    /\ UNCHANGED <<memory, sessionFiles, fsLog, created, cur, parked,
                   req, hostEnv, execution, sbx, alive, dir, runEnvs, fileList, stdout,
                   stderr, result, error, thrown, failed>>

\* a read failure that reaches the outer catch
ReadFail_Fatal ==
    /\ pc = "read"
    /\ idx' = 0
    /\ Catch(calls, sbx, "read", "read failed")
    /\ UNCHANGED <<memory, sessionFiles, fsLog, created, cur, parked,
                   req, hostEnv, execution, sbx, alive, dir, runEnvs, fileList, stdout,
                   stderr, result, error, outputFiles, thrown>>

ReadFail ==
    /\ pc = "read"
    /\ failed' = Append(failed, <<"read", "read failed">>)
    /\ idx' = 0
    /\ Return(calls, outputFiles)
    /\ UNCHANGED <<memory, sessionFiles, fsLog, created, cur, parked,
                   req, hostEnv, execution, sbx, alive, dir, runEnvs, fileList, stdout,
                   stderr, result, error, outputFiles, thrown>>

\* sbx.kill() resolves: the promise settles with the completion value
KillOk ==
    /\ pc = "kill"
    /\ alive' = FALSE
    /\ pc' = "done"
    /\ outcome' = "returned"
    /\ UNCHANGED <<memory, sessionFiles, fsLog, created, cur, parked,
                   req, hostEnv, execution, sbx, dir, calls, runEnvs, idx, fileList, stdout,
                   stderr, result, error, outputFiles, ret, retPlain, thrown, failed>>

\* sbx.kill() rejects inside `finally`: the rejection replaces the completion
\* value and executeTypeScript rejects
KillFail ==
    /\ pc = "kill"
    /\ \E m \in Errors("kill") :
          /\ thrown' = m
          /\ failed' = Append(failed, <<"kill", m>>)
    /\ pc' = "done"
    /\ outcome' = "thrown"
    /\ UNCHANGED <<memory, sessionFiles, fsLog, created, cur, parked,
                   req, hostEnv, execution, sbx, alive, dir, calls, runEnvs, idx, fileList,
                   stdout, stderr, result, error, outputFiles, ret, retPlain>>

Next ==
    \/ Invoke
    \/ CreateOk
    \/ CreateFail
    \/ InstallOk
    \/ InstallFail
    \/ WriteOk
    \/ WriteFail
    \/ RunReturn
    \/ RunThrow
    \/ ListOk
    \/ ListFail
    \/ ReadOk
    \/ ReadFail
    \/ KillOk
    \/ KillFail

Spec == Init /\ [][Next]_vars


-----------------------------------------------------------------------------
(* Vocabulary of the properties *)

\* the number of provider calls of kind op issued so far
RECURSIVE CountCalls(_, _)
CountCalls(c, op) ==
    IF Len(c) = 0 THEN 0
    ELSE (IF c[1].op = op THEN 1 ELSE 0) + CountCalls(Tail(c), op)

Issued(op) == CountCalls(calls, op)

\* the provider operation op threw during this invocation
Threw(op) == \E i \in 1..Len(failed) : failed[i][1] = op

Settled == pc = "done"

Provisioned == IsSome(sbx)

SandboxOps == {"commands.run", "files.write", "runCode", "files.list", "files.read"}

-----------------------------------------------------------------------------
(* C1: executeTypeScript never raises: whatever the provider does, a       *)
(* settled invocation has returned an ExecResult, it has not rejected.     *)
(* The code violates it when sbx.kill() rejects inside `finally`.          *)
C1_NeverRaises ==
    Settled => outcome = "returned" /\ IsSome(ret)

(* C2 as stated: every invocation attempts teardown exactly once,          *)
(* whichever phase fails, provisioning included.                           *)
C2_ExactlyOneTeardown ==
    Settled => Issued("kill") = 1

(* C2 amended: kill is attempted exactly once when the sandbox was         *)
(* provisioned, whichever later phase fails, and not at all when           *)
(* Sandbox.create failed; it is never attempted twice.                     *)
C2_OneTeardownPerSandbox ==
    /\ Issued("kill") <= 1
    /\ Settled => Issued("kill") = (IF Provisioned THEN 1 ELSE 0)

\* staging failed and the sandbox was still torn down, once
C2_Witness ==
    Settled /\ Threw("write") /\ Issued("kill") = 1

(* C3: a sandbox that was acquired is released before the adapter returns: *)
(* the caller observes an outcome only after kill was issued and awaited,  *)
(* a returned call leaves no live sandbox, and kill is the last provider   *)
(* call of the invocation.                                                 *)
C3_ReleasedBeforeReturn ==
    /\ outcome # "pending" /\ Provisioned => Issued("kill") = 1 /\ Settled
    /\ outcome = "returned" => ~alive
    /\ \A i \in 1..Len(calls) : calls[i].op = "kill" => i = Len(calls)

\* a failure path (runCode threw) that returned with the sandbox killed
C3_Witness ==
    outcome = "returned" /\ Provisioned /\ Threw("runCode") /\ ~alive
    /\ calls[Len(calls)].op = "kill"


-----------------------------------------------------------------------------
(* The environment filter over every small host environment: SpecEnv runs  *)
(* the adapter up to the runCode call for requests that differ in `args`   *)
(* only.                                                                   *)

MaxEnvVars == 2

EnvNames ==
    {"MY_API_KEY", "_API_KEY", "API_KEY", "API_KEY_FOO", "API_KEY_",
     "BASE_URL_BAR", "BASE_URL", "XBASE_URL_Y", "MY_API_KEY_OLD", "SECRET_TOKEN",
     "ARGS_JSON", "my_api_key", "E2B_API_KEY"}

EnvValues == {"", "v"}

WideHostEnvs ==
    HostEnvs \cup
    UNION {[D -> EnvValues] : D \in {S \in SUBSET EnvNames : Cardinality(S) <= MaxEnvVars}}

ArgsOnlyRequests ==
    {r \in Requests : r.code = "main()" /\ r.dependencies = None /\ r.files = None}

InitEnv ==
    /\ pc = "idle"
    /\ hostEnv \in WideHostEnvs
    /\ req = [code |-> "", dependencies |-> None, files |-> None, args |-> None]
    /\ sbx = None
    /\ alive = FALSE
    /\ dir = <<>>
    /\ calls = <<>>
    /\ runEnvs = None
    /\ idx = 0
    /\ fileList = <<>>
    /\ execution = None
    /\ stdout = ""
    /\ stderr = ""
    /\ result = None
    /\ error = None
    /\ outputFiles = <<>>
    /\ ret = None
    /\ retPlain = None
    /\ outcome = "pending"
    /\ thrown = ""
    /\ failed = <<>>
    /\ created = <<>>
    /\ cur = 1
    /\ parked = NotStarted
    /\ memory = None
    /\ sessionFiles = <<>>
    /\ fsLog = <<>>

InvokeArgs == InvokeWith(ArgsOnlyRequests)

NextEnv ==
    \/ InvokeArgs
    \/ CreateOk

SpecEnv == InitEnv /\ [][NextEnv]_vars

-----------------------------------------------------------------------------
(* The result extraction over every short stdout: SpecExtract starts where *)
(* runCode is awaited and lets it resolve with any execution whose stdout  *)
(* is a short sequence of chunks.                                          *)

MaxChunks == 5

Chunks == {"{", "}", "\"k\":", "1", ",", "x", " "}

WideExecutions ==
    [stdout : BoundedSeq(Chunks, MaxChunks) \cup {StdoutExample, <<"no json here">>},
     stderr : {<<>>},
     error  : {None, Some(Fault)}]

InitExtract ==
    /\ pc = "run"
    /\ hostEnv = EnvEmpty
    /\ req = [code |-> "main()", dependencies |-> None, files |-> None, args |-> None]
    /\ sbx = Some(1)
    /\ alive = TRUE
    /\ dir = FreshDir
    /\ calls = <<Call("Sandbox.create", "30000", ""), Call("runCode", "main()", "ts")>>
    /\ runEnvs = Some(envVars(EnvEmpty, None))
    /\ idx = 0
    /\ fileList = <<>>
    /\ execution = None
    /\ stdout = ""
    /\ stderr = ""
    /\ result = None
    /\ error = None
    /\ outputFiles = <<>>
    /\ ret = None
    /\ retPlain = None
    /\ outcome = "pending"
    /\ thrown = ""
    /\ failed = <<>>
    /\ created = <<1>>
    /\ cur = 1
    /\ parked = NotStarted
    /\ memory = None
    /\ sessionFiles = <<>>
    /\ fsLog = <<>>

RunReturnWide == RunReturnWith(WideExecutions, {<<>>})

NextExtract == RunReturnWide

SpecExtract == InitExtract /\ [][NextExtract]_vars

-----------------------------------------------------------------------------
(* C4: a host variable reaches the sandboxed process if and only if its    *)
(* name ends with _API_KEY or begins with API_KEY_ or BASE_URL_, with its  *)
(* host value; nothing else of the host environment is in the environment  *)
(* given to runCode; of SECRET_TOKEN, MY_API_KEY, API_KEY_FOO and          *)
(* BASE_URL_BAR exactly the last three are forwarded.                      *)

NameEndsWith(k, suffix) == \E i \in 0..Len(k) : SubSeq(k, 1, i) \o suffix = k

NameBeginsWith(k, prefix) == \E i \in 0..Len(k) : prefix \o SubSeq(k, i + 1, Len(k)) = k

Eligible(k) ==
    NameEndsWith(k, "_API_KEY") \/ NameBeginsWith(k, "API_KEY_")
    \/ NameBeginsWith(k, "BASE_URL_")

\* C4: the environment of runCode holds exactly the eligible host variables
C4_EnvFiltering ==
    IsSome(runEnvs) =>
        LET e == Get(runEnvs)
        IN /\ \A k \in DOMAIN hostEnv :
                IF Eligible(k) THEN k \in DOMAIN e /\ e[k] = hostEnv[k]
                ELSE \/ k \notin DOMAIN e
                     \/ k = "ARGS_JSON" /\ IsSome(req.args) /\ e[k] # hostEnv[k]
           /\ \A k \in DOMAIN e : k \in DOMAIN hostEnv \/ k = "ARGS_JSON"
           /\ hostEnv = EnvExample =>
                DOMAIN e \ {"ARGS_JSON"} = {"MY_API_KEY", "API_KEY_FOO", "BASE_URL_BAR"}

\* the example host environment went through the filter
C4_Witness ==
    /\ IsSome(runEnvs)
    /\ hostEnv = EnvExample
    /\ Get(runEnvs) = [k \in {"MY_API_KEY", "API_KEY_FOO", "BASE_URL_BAR"} |-> hostEnv[k]]

-----------------------------------------------------------------------------
ThrewFatal == Threw("create") \/ Threw("install") \/ Threw("write") \/ Threw("runCode")

C6_KillFailureSwallowed ==
    Settled /\ Threw("kill") => outcome = "returned" /\ IsSome(ret)

(* C7: when dependency installation fails nothing is staged, run, listed   *)
(* or read, and the caller receives a result whose error is the install    *)
(* failure.  The code violates the last part when kill then rejects (C6).  *)
C7_InstallFailureAborts ==
    Settled /\ Threw("install") =>
        /\ Issued("files.write") = 0
        /\ Issued("runCode") = 0
        /\ Issued("files.list") = 0
        /\ Issued("files.read") = 0
        /\ outcome = "returned"
        /\ \E i \in 1..Len(failed) :
              /\ failed[i][1] = "install"
              /\ Get(ret).error = Some(OrElse(failed[i][2], "unknown error"))

-----------------------------------------------------------------------------
(* C8 *)

\* the words of a command line, split at single spaces
RECURSIVE Words(_, _)
Words(s, from) ==
    LET sp == indexOf(s, " ", from)
    IN IF sp = 0 THEN <<SubSeq(s, from, Len(s))>>
       ELSE <<SubSeq(s, from, sp - 1)>> \o Words(s, sp + 1)

HasDeps == IsSome(req.dependencies) /\ Len(Get(req.dependencies)) > 0

InstallsBeforeRun ==
    \A i \in 1..Len(calls) :
        calls[i].op = "runCode" /\ HasDeps =>
            \E j \in 1..(i - 1) : calls[j].op = "commands.run"

\* the call log only grows: a command is examined in the states where it
\* is the latest call
InstallNamesAll ==
    Len(calls) > 0 /\ calls[Len(calls)].op = "commands.run" =>
        Words(calls[Len(calls)].a, 1) = <<"npm", "install">> \o Get(req.dependencies)

(* C8 as stated: without dependencies no install command is issued; with   *)
(* a non-empty list exactly one is issued for every request, it names all  *)
(* dependencies in order and precedes runCode.                             *)
C8_InstallIssued ==
    /\ ~HasDeps => Issued("commands.run") = 0
    /\ Settled /\ HasDeps => Issued("commands.run") = 1
    /\ InstallNamesAll
    /\ InstallsBeforeRun

(* C8 amended: without dependencies no install command is issued; with a   *)
(* non-empty list exactly one is issued once the sandbox is provisioned    *)
(* (none when Sandbox.create failed), it names all dependencies in their   *)
(* given order and precedes runCode.                                       *)
C8_InstallIssuedOnceProvisioned ==
    /\ ~HasDeps => Issued("commands.run") = 0
    /\ HasDeps => Issued("commands.run") = (IF Provisioned THEN 1 ELSE 0)
    /\ InstallNamesAll
    /\ InstallsBeforeRun

\* two dependencies were installed by one command and the program then ran
C8_Witness ==
    /\ HasDeps /\ Len(Get(req.dependencies)) = 2
    /\ Get(req.dependencies)[1] # Get(req.dependencies)[2]
    /\ Issued("commands.run") = 1
    /\ Issued("runCode") = 1

(* C9: whenever the caller supplies an arguments value, 0, false, "" and   *)
(* null included, the environment of runCode holds ARGS_JSON with its JSON *)
(* text; without arguments ARGS_JSON is not set.  The code violates it:    *)
(* `if (args)` skips every falsy value.                                    *)
C9_ArgsExposed ==
    IsSome(runEnvs) =>
        IF IsSome(req.args)
        THEN /\ "ARGS_JSON" \in DOMAIN Get(runEnvs)
             /\ Get(runEnvs)["ARGS_JSON"] = stringify(Get(req.args), "", "")
        ELSE "ARGS_JSON" \notin DOMAIN Get(runEnvs)

-----------------------------------------------------------------------------
(* C10: result is the JSON parse of the span of stdout from its first '{'  *)
(* to its last '}' when that span exists and parses; otherwise result is   *)
(* absent, and the extraction sets no error: error is set exactly when the *)
(* execution reported a fault.                                             *)

Positions(s, c) == {i \in 1..Len(s) : CharAt(s, i) = c}

Least(S) == CHOOSE x \in S : \A y \in S : x <= y

Greatest(S) == CHOOSE x \in S : \A y \in S : y <= x

HasSpan(s) ==
    /\ Positions(s, "{") # {}
    /\ Positions(s, "}") # {}
    /\ Least(Positions(s, "{")) < Greatest(Positions(s, "}"))

Span(s) == SubSeq(s, Least(Positions(s, "{")), Greatest(Positions(s, "}")))

\* C10: result is the parse of the first-'{'-to-last-'}' span, else absent
C10_ResultExtraction ==
    pc = "list" =>
        /\ result = (IF HasSpan(stdout) THEN JSONparse(Span(stdout)) ELSE None)
        /\ IsSome(error) <=> IsSome(Get(execution).error)
        /\ stdout = join(StdoutExample, "") =>
              result = Some(Obj(<< <<"ok", Bool(TRUE)>>, <<"data", Num(5)>> >>))
        /\ stdout = "no json here" => result = None

\* the example: a log line, the object, trailing text, and no fault
C10_Witness ==
    /\ pc = "list"
    /\ stdout = "log line\n{\"ok\":true,\"data\":5}\ntrailing"
    /\ result = Some(Obj(<< <<"ok", Bool(TRUE)>>, <<"data", Num(5)>> >>))
    /\ error = None


-----------------------------------------------------------------------------
(* C11 *)

\* the ends of the JSON-looking spans that open at the first '{' of s
SpanEnds(s) ==
    IF Positions(s, "{") = {} THEN {}
    ELSE {j \in Positions(s, "}") :
            /\ j > Least(Positions(s, "{"))
            /\ IsSome(JSONparse(SubSeq(s, Least(Positions(s, "{")), j)))}

\* the first JSON-looking span of s by position
FirstSpan(s) == SubSeq(s, Least(Positions(s, "{")), Least(SpanEnds(s)))

\* a '}' stands in s after its first span
LaterBrace(s) == Greatest(Positions(s, "}")) > Least(SpanEnds(s))

(* C11 as stated: with several JSON-looking spans in stdout, result is the *)
(* value of the first span and later spans do not change it.               *)
C11_FirstSpanAlone ==
    pc = "list" /\ SpanEnds(stdout) # {} =>
        result = JSONparse(FirstSpan(stdout))

(* C11 amended: the one greedy match from the first '{' to the last '}' is *)
(* considered: result is the value of the first span only when no '}'      *)
(* follows it; when stdout holds a later span (any later '}'), the match   *)
(* runs to that brace, does not parse, and result is absent.               *)
C11_GreedyMatchDecides ==
    pc = "list" /\ SpanEnds(stdout) # {} =>
        result = (IF LaterBrace(stdout) THEN None ELSE JSONparse(FirstSpan(stdout)))

\* two objects in stdout, and no result
C11_Witness ==
    /\ pc = "list"
    /\ SpanEnds(stdout) # {}
    /\ LaterBrace(stdout)
    /\ IsSome(JSONparse(SubSeq(stdout, Least(SpanEnds(stdout)) + 1, Len(stdout))))
    /\ result = None


-----------------------------------------------------------------------------
(* C12 *)

\* an entry of the working directory that the claim keeps
Keeps(e) ==
    /\ e.type = "file"
    /\ e.name \notin {".bashrc", ".bash_logout", ".profile",
                      "package.json", "package-lock.json"}
    /\ ~NameEndsWith(e.name, ".ts")

\* the entries of the working directory d that the claim keeps
Qualifying(d) == {i \in 1..Len(d) : Keeps(d[i])}

\* the map m (a sequence of key-value pairs) holds exactly the entries I of d
HoldsExactly(m, d, I) ==
    /\ Len(m) = Cardinality(I)
    /\ \A i \in I : \E k \in 1..Len(m) : m[k] = <<d[i].name, d[i].content>>

SuccessPath == Settled /\ outcome = "returned" /\ failed = <<>>

(* C12: on the success path with no listing or read failure, files holds   *)
(* exactly the regular files of the working directory whose name does not  *)
(* end in .ts and is not .bashrc, .bash_logout, .profile, package.json or  *)
(* package-lock.json, each under its name with its full content (files is  *)
(* absent when there is none).                                             *)
C12_FileExclusion ==
    SuccessPath =>
        IF Qualifying(dir) = {} THEN Get(ret).files = None
        ELSE /\ IsSome(Get(ret).files)
             /\ HoldsExactly(Get(Get(ret).files), dir, Qualifying(dir))

\* package.json, .bashrc, program.ts and report.csv yield report.csv only
C12_Witness ==
    /\ SuccessPath
    /\ \A n \in {"package.json", ".bashrc", "program.ts", "report.csv"} :
          \E i \in 1..Len(dir) : dir[i].name = n /\ dir[i].type = "file"
    /\ Get(ret).files = Some(<< <<"report.csv", "a,b">> >>)


-----------------------------------------------------------------------------
(* C13 *)

\* the chunks of a log, one after the other
RECURSIVE Concat(_)
Concat(chunks) ==
    IF Len(chunks) = 0 THEN "" ELSE chunks[1] \o Concat(Tail(chunks))

\* the first n files of the listing fl that the claim keeps, in listing
\* order, as a map
RECURSIVE CollectedPrefix(_, _)
CollectedPrefix(fl, n) ==
    IF n = 0 \/ Len(fl) = 0 THEN <<>>
    ELSE IF Keeps(fl[1])
         THEN << <<fl[1].name, fl[1].content>> >> \o CollectedPrefix(Tail(fl), n - 1)
         ELSE CollectedPrefix(Tail(fl), n)

CollectionFailed == Threw("list") \/ Threw("read")

\* the fields of the ExecResult that do not depend on the collection are the
\* locals computed from the run before the collection began
AsWithoutFailure(r) ==
    /\ r.stdout = stdout /\ stdout = Concat(Get(execution).stdout)
    /\ r.stderr = stderr /\ stderr = Concat(Get(execution).stderr)
    /\ r.result = result
    /\ r.error = error /\ IsSome(error) = IsSome(Get(execution).error)

\* the number of reads that succeeded
ReadsDone == Issued("files.read") - (IF Threw("read") THEN 1 ELSE 0)

(* C13: a failure of files.list or of a files.read is not fatal: the       *)
(* ExecResult carries stdout, stderr, result and error exactly as the run   *)
(* determined them (error is not set by the failure), and files holds the   *)
(* files read before the failure, absent when none was read.                *)
C13_CollectionFailureSwallowed ==
    IsSome(ret) /\ CollectionFailed =>
        /\ AsWithoutFailure(Get(ret))
        /\ ~ThrewFatal
        /\ Get(ret).files =
              (IF ReadsDone = 0 THEN None
               ELSE Some(CollectedPrefix(dir, ReadsDone)))

\* a read failed after one file had been read: that file is returned
C13_Witness ==
    /\ Settled /\ outcome = "returned"
    /\ Threw("read")
    /\ Issued("files.read") = 2
    /\ IsSome(Get(ret).files) /\ Len(Get(Get(ret).files)) = 1
    /\ Get(ret).error = None


-----------------------------------------------------------------------------
(* C14: in every ExecResult, files is absent or a non-empty map, never an  *)
(* empty map.                                                              *)
C14_FilesAbsentOrNonEmpty ==
    IsSome(ret) =>
        \/ Get(ret).files = None
        \/ IsSome(Get(ret).files) /\ Len(Get(Get(ret).files)) > 0

\* nothing qualified in the listing, and files is absent from the result
C14_Witness ==
    /\ SuccessPath
    /\ Issued("files.list") = 1
    /\ Qualifying(dir) = {}
    /\ Get(ret).files = None


-----------------------------------------------------------------------------
(* C15 *)

\* /home/user as the adapter left it before the program ran
StagedDir ==
    writeAll(IF HasDeps THEN npmInstallDir(FreshDir) ELSE FreshDir,
             IF IsSome(req.files) THEN Get(req.files) ELSE <<>>)

\* no brace-delimited span of s is a JSON value
NothingParseable(s) ==
    \A i \in Positions(s, "{"), j \in Positions(s, "}") :
        i < j => JSONparse(SubSeq(s, i, j)) = None

(* C15: for every request, with or without dependencies and input files,   *)
(* a program that writes no files and prints nothing parseable yields       *)
(* result absent and files absent, with stdout and stderr the (possibly     *)
(* empty) strings that were printed.                                        *)
C15_NothingWrittenNothingReturned ==
    SuccessPath /\ dir = StagedDir /\ NothingParseable(stdout) =>
        /\ Get(ret).result = None
        /\ Get(ret).files = None
        /\ Get(ret).stdout = join(Get(execution).stdout, "")
        /\ Get(ret).stderr = join(Get(execution).stderr, "")


-----------------------------------------------------------------------------
(* C16 *)

\* the budget ran out during this invocation: the provider failed the call
\* that was in flight (the adapter never looks at what kind of error it is)
TimedOut == failed # <<>>

(* C16: when the sandbox's 30-second budget is exceeded, the invocation     *)
(* terminates having returned a result with error set and with result and   *)
(* files absent.                                                            *)
C16_TimeoutReported ==
    Settled /\ TimedOut =>
        /\ outcome = "returned"
        /\ IsSome(Get(ret).error)
        /\ Get(ret).result = None
        /\ Get(ret).files = None


-----------------------------------------------------------------------------
(* C17 *)

FaultReported == IsSome(execution) /\ IsSome(Get(execution).error)

(* C17: when runCode returns normally and reports a runtime fault, the     *)
(* fault is stringified (pretty-printed) into error and is not thrown;     *)
(* stdout and stderr are the concatenation of the captured chunks in       *)
(* emission order, and the collection of output files takes place.         *)
C17_FaultCaptured ==
    FaultReported =>
        /\ ~Threw("runCode")
        /\ Issued("files.list") = 1
        /\ error = Some(stringify(Get(Get(execution).error), "  ", ""))
        /\ stdout = Concat(Get(execution).stdout)
        /\ stderr = Concat(Get(execution).stderr)
        /\ IsSome(ret) =>
              /\ Get(ret).error = error
              /\ Get(ret).stdout = stdout
              /\ Get(ret).stderr = stderr
              /\ ~CollectionFailed =>
                    IF Qualifying(dir) = {} THEN Get(ret).files = None
                    ELSE HoldsExactly(Get(Get(ret).files), dir, Qualifying(dir))

\* a faulted run is returned with its output, its fault text and a file
C17_Witness ==
    /\ Settled /\ outcome = "returned"
    /\ FaultReported
    /\ Get(ret).error =
          Some("{\n  \"name\": \"Error\",\n  \"value\": \"crash\",\n  \"traceback\": \"at main\"\n}")
    /\ Get(ret).stdout = "partial {"
    /\ Get(ret).stderr = "trace"
    /\ Get(ret).files = Some(<< <<"report.csv", "a,b">> >>)


-----------------------------------------------------------------------------
(* C18 *)

\* the phase of a provider call, in the order of the protocol
Phase(op) ==
    CASE op = "Sandbox.create" -> 1
      [] op = "commands.run"   -> 2
      [] op = "files.write"    -> 3
      [] op = "runCode"        -> 4
      [] op = "files.list"     -> 5
      [] op = "files.read"     -> 6
      [] op = "kill"           -> 7

\* the call that a position of the adapter awaits
Awaited(p) ==
    CASE p = "create"  -> "Sandbox.create"
      [] p = "install" -> "commands.run"
      [] p = "write"   -> "files.write"
      [] p = "run"     -> "runCode"
      [] p = "list"    -> "files.list"
      [] p = "read"    -> "files.read"
      [] p = "kill"    -> "kill"

\* each call is of the phase of the call before it (and then a further write
\* or read) or of a later phase
PhasesInOrder ==
    \A i \in 1..(Len(calls) - 1) :
        \/ Phase(calls[i].op) < Phase(calls[i + 1].op)
        \/ /\ calls[i].op = calls[i + 1].op
           /\ calls[i].op \in {"files.write", "files.read"}

\* no call is issued a second time
NoRetry == \A i, j \in 1..Len(calls) : i < j => calls[i] # calls[j]

\* the adapter is suspended on the call it issued last, and on no call when it
\* has not started or has settled
OneInFlight ==
    IF pc \in {"idle", "done"} THEN pc = "idle" => calls = <<>>
    ELSE Len(calls) > 0 /\ calls[Len(calls)].op = Awaited(pc)

(* C18: within one invocation the provider calls occur in the order        *)
(* provision, install, stage, execute, collect (list, then reads),         *)
(* teardown; the adapter awaits the one call it issued last; runCode is    *)
(* called at most once and no call is repeated after a failure.            *)
C18_SequentialProtocol ==
    /\ PhasesInOrder
    /\ OneInFlight
    /\ Issued("runCode") <= 1
    /\ NoRetry
    /\ ThrewFatal /\ pc # "kill" => Settled

\* every phase took place, with two reads
C18_Witness ==
    /\ Settled
    /\ \A op \in {"Sandbox.create", "commands.run", "files.write", "runCode",
                  "files.list", "kill"} : Issued(op) = 1
    /\ Issued("files.read") = 2


-----------------------------------------------------------------------------
(* Two invocations in one event loop.  A continuation of an invocation runs *)
(* from the settling of the call it awaits to its next await; between two   *)
(* continuations the event loop may run the other invocation.  Every        *)
(* variable of executeTypeScript is a local of the call, so each invocation *)
(* has its own copy: the copy of the invocation that is not running is      *)
(* parked.  process.env and the provider's sandbox numbering are shared.    *)

ConcRequests ==
    { [code |-> "main()", dependencies |-> None, files |-> None, args |-> None],
      [code |-> "main()", dependencies |-> Some(<<"axios">>),
       files |-> Some(<< <<"data.txt", ContentOf("data.txt")>> >>),
       args |-> Some(ArgsObject)] }

ConcExecutions ==
    { [stdout |-> StdoutExample, stderr |-> <<>>, error |-> None],
      [stdout |-> <<"partial {">>, stderr |-> <<"trace">>, error |-> Some(Fault)] }

ConcEffects == { <<>>, << <<"report.csv", "a,b">> >> }

InitConc == Init /\ hostEnv = EnvExample

InvokeConc == InvokeWith(ConcRequests)

RunReturnConc == RunReturnWith(ConcExecutions, ConcEffects)

\* a module-level `sbx`: the handle is not part of what an invocation keeps
Switch_SharedHandle ==
    /\ cur' = 3 - cur
    /\ parked' = Locals
    /\ pc' = parked.pc /\ req' = parked.req
    /\ alive' = parked.alive /\ dir' = parked.dir /\ calls' = parked.calls
    /\ runEnvs' = parked.runEnvs /\ idx' = parked.idx
    /\ fileList' = parked.fileList /\ execution' = parked.execution
    /\ stdout' = parked.stdout /\ stderr' = parked.stderr
    /\ result' = parked.result /\ error' = parked.error
    /\ outputFiles' = parked.outputFiles /\ ret' = parked.ret
    /\ retPlain' = parked.retPlain
    /\ outcome' = parked.outcome /\ thrown' = parked.thrown
    /\ failed' = parked.failed
    /\ UNCHANGED <<sbx, hostEnv, created, memory, sessionFiles, fsLog>>

\* the event loop turns to the other invocation: its locals are loaded and
\* those of the running one are parked
Switch ==
    /\ cur' = 3 - cur
    /\ parked' = Locals
    /\ pc' = parked.pc /\ req' = parked.req /\ sbx' = parked.sbx
    /\ alive' = parked.alive /\ dir' = parked.dir /\ calls' = parked.calls
    /\ runEnvs' = parked.runEnvs /\ idx' = parked.idx
    /\ fileList' = parked.fileList /\ execution' = parked.execution
    /\ stdout' = parked.stdout /\ stderr' = parked.stderr
    /\ result' = parked.result /\ error' = parked.error
    /\ outputFiles' = parked.outputFiles /\ ret' = parked.ret
    /\ retPlain' = parked.retPlain
    /\ outcome' = parked.outcome /\ thrown' = parked.thrown
    /\ failed' = parked.failed
    /\ UNCHANGED <<hostEnv, created, memory, sessionFiles, fsLog>>

NextConc ==
    \/ InvokeConc
    \/ CreateOk
    \/ CreateFail
    \/ InstallOk
    \/ InstallFail
    \/ WriteOk
    \/ WriteFail
    \/ RunReturnConc
    \/ RunThrow
    \/ ListOk
    \/ ListFail
    \/ ReadOk
    \/ ReadFail
    \/ KillOk
    \/ KillFail
    \/ Switch

SpecConc == InitConc /\ [][NextConc]_vars


-----------------------------------------------------------------------------
(* C19 *)

\* the invocation who, with locals l, holds no sandbox but the one made for it
Owns(who, l) ==
    /\ IsSome(l.sbx) =>
          Get(l.sbx) \in 1..Len(created) /\ created[Get(l.sbx)] = who
    /\ Cardinality({i \in 1..Len(created) : created[i] = who})
          = CountCalls(l.calls, "Sandbox.create")
             - (IF l.pc = "create" \/ (l.sbx = None /\ l.pc # "idle") THEN 1 ELSE 0)

\* whatever the invocation asked of a sandbox, it asked of its own handle, and
\* its sandbox is gone only if it killed it itself
OnOwnSandbox(l) ==
    /\ (\E i \in 1..Len(l.calls) : l.calls[i].op \in SandboxOps \cup {"kill"})
          => IsSome(l.sbx)
    /\ IsSome(l.sbx) /\ ~l.alive => CountCalls(l.calls, "kill") = 1

Separate == IsSome(sbx) /\ IsSome(parked.sbx) => sbx # parked.sbx

\* a continuation of one invocation leaves the other as it was, and a turn of
\* the event loop changes neither
NonInterference ==
    IF cur' = cur THEN parked' = parked
    ELSE parked' = Locals /\ Locals' = parked

(* C19: under any interleaving of two invocations, each creates its own    *)
(* sandbox, addresses install, write, run, list, read and kill to the      *)
(* sandbox it created, never kills or reuses the other's sandbox, and      *)
(* proceeds unaffected by the other's steps, so that its result is the one *)
(* it would have alone with the same provider responses.                   *)
C19_Independent ==
    [][/\ NonInterference
       /\ (Owns(cur, Locals) /\ Owns(3 - cur, parked))'
       /\ (OnOwnSandbox(Locals) /\ OnOwnSandbox(parked))'
       /\ Separate']_vars

\* both invocations are suspended in mid-protocol, each on its own live sandbox
C19_Witness ==
    /\ cur = 1 /\ pc = "kill" /\ parked.pc = "run"
    /\ sbx = Some(2) /\ parked.sbx = Some(1)
    /\ alive /\ parked.alive
    /\ created = <<2, 1>>


-----------------------------------------------------------------------------
(* C20 *)

\* a fatal failure was thrown with an empty message
ThrewEmptyMessage ==
    \E i \in 1..Len(failed) :
        failed[i][1] \in {"create", "install", "write", "runCode"} /\ failed[i][2] = ""

-----------------------------------------------------------------------------
(* C21 *)

\* the position of the runCode call in the log, 0 when it was not issued
RunAt == IF \E i \in 1..Len(calls) : calls[i].op = "runCode"
         THEN CHOOSE i \in 1..Len(calls) : calls[i].op = "runCode"
         ELSE 0

\* every input file was written under /home/user at its path, with its
\* content, before position n of the log
StagedBefore(n) ==
    IsSome(req.files) =>
        \A k \in 1..Len(Get(req.files)) :
            \E i \in 1..(n - 1) :
                calls[i] = Call("files.write",
                                "/home/user/" \o Get(req.files)[k][1],
                                Get(req.files)[k][2])

(* C21: every input file is written under the working directory at its    *)
(* relative path with its content unchanged before runCode is called; if a *)
(* write fails, runCode is never called, the caller receives a result with *)
(* error set, and the sandbox is torn down.  The code violates the part    *)
(* about the result when kill then rejects (C6).                           *)
C21_StagingBeforeRun ==
    /\ RunAt > 0 => StagedBefore(RunAt)
    /\ Settled /\ Threw("write") =>
          /\ Issued("runCode") = 0
          /\ Issued("kill") = 1
          /\ outcome = "returned"
          /\ IsSome(Get(ret).error)


-----------------------------------------------------------------------------
(* C22 *)

\* the message of the fatal failure of this invocation
FatalMessage ==
    LET i == CHOOSE i \in 1..Len(failed) :
                 failed[i][1] \in {"create", "install", "write", "runCode"}
    IN failed[i][2]

NoPartialResult(r) == r.stdout = "" /\ r.result = None /\ r.files = None

(* C22 as stated: when provisioning, install, staging or runCode throws,   *)
(* the ExecResult has stdout empty, error set to the failure's message,    *)
(* and neither result nor files.                                           *)
C22_FatalFailureMessage ==
    IsSome(ret) /\ ThrewFatal =>
        NoPartialResult(Get(ret)) /\ Get(ret).error = Some(FatalMessage)

(* C22 amended: when provisioning, install, staging or runCode throws, the *)
(* ExecResult has stdout empty, neither result nor files, and error set to *)
(* the failure's message, or to "unknown error" when that message is       *)
(* empty.                                                                  *)
C22_FatalFailureMessageOrFallback ==
    IsSome(ret) /\ ThrewFatal =>
        /\ NoPartialResult(Get(ret))
        /\ Get(ret).error =
              Some(IF FatalMessage = "" THEN "unknown error" ELSE FatalMessage)

\* install and staging succeeded, runCode threw, and the error result came back
C22_Witness ==
    /\ Settled /\ outcome = "returned"
    /\ Issued("commands.run") = 1 /\ Issued("files.write") = 1
    /\ failed = << <<"runCode", "runCode failed">> >>
    /\ Get(ret) = ExecResult("", "runCode failed", None, None, Some("runCode failed"))


-----------------------------------------------------------------------------
(* The arguments in depth: one call with an arguments value out of a wide  *)
(* set of JSON values, up to the runCode call.                             *)

MaxArgLen == 2

ArgLeaves ==
    {Null, Bool(TRUE), Bool(FALSE), Num(0), Num(3), Num(-7), Str(""), Str("x"),
     Str("a b"), Str("{")}

ArgItems == {Null, Bool(TRUE), Num(-7), Str("x")}

ArgArrays == {Arr(q) : q \in BoundedSeq(ArgItems \cup {Arr(<<>>), ArgsObject}, MaxArgLen)}

ArgObjects ==
    {Obj(<<>>)}
    \cup {Obj(<< <<"n", a>> >>) : a \in ArgItems \cup {Arr(<<Num(1), Num(2)>>)}}
    \cup {Obj(<< <<"n", a>>, <<"tag", b>> >>) :
             a \in ArgItems \cup {Num(3)}, b \in ArgItems \cup {ArgsObject}}

WideArgs == ArgLeaves \cup ArgArrays \cup ArgObjects

WideArgsRequests ==
    {[code |-> "main()", dependencies |-> None, files |-> None, args |-> a] :
        a \in {None} \cup {Some(v) : v \in WideArgs}}

\* a host that itself has a variable named ARGS_JSON
EnvArgsJson == [k \in {"ARGS_JSON", "MY_API_KEY"} |-> "v"]

InitArgs == InitEnv /\ hostEnv \in {EnvEmpty, EnvExample, EnvArgsJson}

InvokeWideArgs == InvokeWith(WideArgsRequests)

NextArgs ==
    \/ InvokeWideArgs
    \/ CreateOk

SpecArgs == InitArgs /\ [][NextArgs]_vars

-----------------------------------------------------------------------------
(* C23 *)

\* the value is one that the adapter exposes
Exposed(v) == v \notin {Null, Bool(FALSE), Num(0), Str("")}

-----------------------------------------------------------------------------
(* The agent module.  Its top level runs once, when the module is loaded:  *)
(* it reads process.env and builds `memory`.  The tool is invoked          *)
(* afterwards.                                                             *)

\* process.env.NAME: undefined when the variable is not set
getenv(env, name) == IF name \in DOMAIN env THEN Some(Str(env[name])) ELSE None

\* a && b
And(a, b) == IF TruthyOpt(a) THEN b ELSE a

isProduction(env) == getenv(env, "NODE_ENV") = Some(Str("production"))

\* a selection that looks at DATABASE_URL only
usePostgres_UrlOnly(env) == getenv(env, "DATABASE_URL")

usePostgres(env) == And(getenv(env, "DATABASE_URL"), Some(Bool(isProduction(env))))

\* the stores that `memory` is built on
memoryOf(env) ==
    IF TruthyOpt(usePostgres(env))
    THEN [storage |-> "PostgresStore", vector |-> "PgVector",
          url |-> env["DATABASE_URL"]]
    ELSE [storage |-> "LibSQLStore", vector |-> "LibSQLVector",
          url |-> "file:./agent0-memory.db"]

\* the settings of a host: each variable unset or set to one of its values
Settings ==
    [NODE_ENV |-> {"", "production", "Production", "development"},
     DATABASE_URL |-> {"", "postgresql://h/db"},
     OPENROUTER_API_KEY |-> {"", "sk-or"},
     E2B_API_KEY |-> {"", "e2b-1"}]

AgentHostEnvs ==
    UNION {{h \in [D -> {"", "production", "Production", "development",
                         "postgresql://h/db", "sk-or", "e2b-1"}] :
               \A k \in D : h[k] \in Settings[k]} :
           D \in SUBSET DOMAIN Settings}

AgentRequests ==
    {[code |-> "main()", dependencies |-> None, files |-> None, args |-> a] :
        a \in {None, Some(ArgsObject)}}

InitAgent ==
    /\ pc = "idle"
    /\ hostEnv \in AgentHostEnvs
    /\ req = [code |-> "", dependencies |-> None, files |-> None, args |-> None]
    /\ sbx = None
    /\ alive = FALSE
    /\ dir = <<>>
    /\ calls = <<>>
    /\ runEnvs = None
    /\ idx = 0
    /\ fileList = <<>>
    /\ execution = None
    /\ stdout = ""
    /\ stderr = ""
    /\ result = None
    /\ error = None
    /\ outputFiles = <<>>
    /\ ret = None
    /\ retPlain = None
    /\ outcome = "pending"
    /\ thrown = ""
    /\ failed = <<>>
    /\ created = <<>>
    /\ cur = 1
    /\ parked = NotStarted
    /\ memory = None
    /\ sessionFiles = <<>>
    /\ fsLog = <<>>

\* the module is loaded: `memory` is built from process.env
LoadAgent ==
    /\ memory = None
    /\ memory' = Some(memoryOf(hostEnv))
    /\ UNCHANGED <<pc, req, hostEnv, sbx, alive, dir, calls, runEnvs, idx, fileList,
                   execution, stdout, stderr, result, error, outputFiles, ret,
                   retPlain, outcome, thrown, failed, created, cur, parked,
                   sessionFiles, fsLog>>

\* the loaded agent calls its tool
InvokeAgent == IsSome(memory) /\ InvokeWith(AgentRequests)

NextAgent ==
    \/ LoadAgent
    \/ InvokeAgent
    \/ CreateOk

SpecAgent == InitAgent /\ [][NextAgent]_vars

-----------------------------------------------------------------------------
(* C24 *)

Production ==
    /\ "NODE_ENV" \in DOMAIN hostEnv /\ hostEnv["NODE_ENV"] = "production"
    /\ "DATABASE_URL" \in DOMAIN hostEnv /\ hostEnv["DATABASE_URL"] # ""

(* C24: the agent's memory is on the Postgres store if and only if         *)
(* NODE_ENV equals "production" and DATABASE_URL is set and not empty; in  *)
(* every other configuration it is on the local LibSQL file store.         *)
C24_MemoryBackend ==
    IsSome(memory) =>
        IF Production
        THEN /\ Get(memory).storage = "PostgresStore"
             /\ Get(memory).url = hostEnv["DATABASE_URL"]
        ELSE /\ Get(memory).storage = "LibSQLStore"
             /\ Get(memory).url = "file:./agent0-memory.db"

\* DATABASE_URL is set outside production and the agent is on the file store
C24_Witness ==
    /\ IsSome(memory)
    /\ "DATABASE_URL" \in DOMAIN hostEnv /\ hostEnv["DATABASE_URL"] = "postgresql://h/db"
    /\ "NODE_ENV" \in DOMAIN hostEnv /\ hostEnv["NODE_ENV"] = "Production"
    /\ Get(memory).storage = "LibSQLStore"


-----------------------------------------------------------------------------
(* C25: the program of a request is never empty: no sandbox is provisioned *)
(* for an empty program and none is passed to runCode.  The code violates  *)
(* it: the schema of exec_ts takes any string and executeTypeScript does   *)
(* not look at `code` before it calls the provider.                        *)
C25_ProgramNeverEmpty ==
    /\ Issued("Sandbox.create") > 0 => req.code # ""
    /\ \A i \in 1..Len(calls) : calls[i].op = "runCode" => calls[i].a # ""


-----------------------------------------------------------------------------
(* C26 *)

OwnKeys == {"E2B_API_KEY", "OPENROUTER_API_KEY"}

(* C26: the host's own service credentials, E2B_API_KEY and                *)
(* OPENROUTER_API_KEY, are in the environment given to the program         *)
(* whenever they are set on the host, with their host values.              *)
C26_OwnCredentialsForwarded ==
    IsSome(runEnvs) =>
        \A k \in OwnKeys :
            k \in DOMAIN hostEnv =>
                k \in DOMAIN Get(runEnvs) /\ Get(runEnvs)[k] = hostEnv[k]

\* both credentials are set on the host and reached runCode
C26_Witness ==
    /\ pc = "run"
    /\ calls[Len(calls)].op = "runCode"
    /\ "E2B_API_KEY" \in DOMAIN hostEnv /\ "OPENROUTER_API_KEY" \in DOMAIN hostEnv
    /\ Get(runEnvs)["E2B_API_KEY"] = "e2b-1"
    /\ Get(runEnvs)["OPENROUTER_API_KEY"] = "sk-or"


-----------------------------------------------------------------------------
(* C27: teardown is attempted if and only if provisioning succeeded: when  *)
(* Sandbox.create fails the invocation makes no kill call and no other     *)
(* sandbox call; when it succeeds exactly one kill call is made and it is  *)
(* the last provider call of the invocation.                               *)
C27_TeardownIffProvisioned ==
    /\ \A i \in 1..Len(calls) : calls[i].op = "kill" => i = Len(calls) /\ Provisioned
    /\ Settled =>
          IF Threw("create")
          THEN calls = <<Call("Sandbox.create", "30000", "")>>
          ELSE Provisioned /\ calls[Len(calls)].op = "kill"

\* provisioning failed and the invocation settled with the one call it made
C27_Witness ==
    /\ Settled
    /\ Threw("create")
    /\ Len(calls) = 1
    /\ Issued("kill") = 0


-----------------------------------------------------------------------------
(* C28 *)

\* the keys and the contents of a files map, and whether it holds a pair
KeysOf(files) == IF IsSome(files) THEN {Get(files)[i][1] : i \in 1..Len(Get(files))} ELSE {}

ContentsOf(files) ==
    IF IsSome(files) THEN {Get(files)[i][2] : i \in 1..Len(Get(files))} ELSE {}

Holds(files, pair) == IsSome(files) /\ \E i \in 1..Len(Get(files)) : Get(files)[i] = pair

TopLevel(path) == "/" \notin {CharAt(path, i) : i \in 1..Len(path)}

\* an input file that is echoed: top-level, not *.ts, not an excluded name
Echoed(path) ==
    /\ TopLevel(path)
    /\ ~NameEndsWith(path, ".ts")
    /\ path \notin {".bashrc", ".bash_logout", ".profile", "package.json",
                    "package-lock.json"}

-----------------------------------------------------------------------------
(* C29 *)

\* the part of a host environment that the filter lets through
EligiblePart(h) == [k \in {n \in DOMAIN h : Eligible(n)} |-> h[k]]

\* h with the variable k set to v
WithVar(h, k, v) == [n \in DOMAIN h \cup {k} |-> IF n = k THEN v ELSE h[n]]

\* h without the variable k
WithoutVar(h, k) == [n \in DOMAIN h \ {k} |-> h[n]]

(* C29: the environment passed to runCode depends on the host only through *)
(* the variables whose name ends in _API_KEY or begins with API_KEY_ or    *)
(* BASE_URL_: it is the one the adapter computes for the eligible part of  *)
(* the host alone and for every host that differs in another variable, the *)
(* arguments being the same; a host variable named ARGS_JSON is never      *)
(* forwarded: ARGS_JSON, when present, is the text of the caller's         *)
(* arguments.                                                              *)
C29_HostNoninterference ==
    IsSome(runEnvs) =>
        /\ Get(runEnvs) = envVars(EligiblePart(hostEnv), req.args)
        /\ \A k \in EnvNames :
              ~Eligible(k) =>
                  /\ envVars(WithoutVar(hostEnv, k), req.args) = Get(runEnvs)
                  /\ \A v \in EnvValues :
                        envVars(WithVar(hostEnv, k, v), req.args) = Get(runEnvs)
        /\ "ARGS_JSON" \in DOMAIN Get(runEnvs) =>
              /\ IsSome(req.args)
              /\ Get(runEnvs)["ARGS_JSON"] = stringify(Get(req.args), "", "")

\* the host has its own ARGS_JSON and a secret; neither reached runCode
C29_Witness ==
    /\ IsSome(runEnvs)
    /\ DOMAIN hostEnv = {"ARGS_JSON", "SECRET_TOKEN"}
    /\ hostEnv["ARGS_JSON"] = "v"
    /\ req.args = Some(ArgsObject)
    /\ Get(runEnvs) = [k \in {"ARGS_JSON"} |-> "{\"n\":3,\"tag\":\"x\"}"]


-----------------------------------------------------------------------------
(* The file shim of the skills module: one Map for the whole module.       *)

MaxFsOps == 3

FsCallers == {1, 2}

FsPaths == {"a.txt", "b.txt"}

FsContents == {"", "x"}

\* the objects handed to _setFiles: at most one entry per path
FsFileMaps ==
    {<<>>}
    \cup {<<<<p, c>>>> : p \in FsPaths, c \in FsContents}
    \cup {m \in {<<<<p, c>>, <<q, d>>>> :
                     p \in FsPaths, c \in FsContents,
                     q \in FsPaths, d \in FsContents} : m[1][1] # m[2][1]}

\* Map.prototype.get: an empty optional stands for undefined
mapGet(members, k) ==
    IF \E i \in 1..Len(members) : members[i][1] = k
    THEN Some(members[CHOOSE i \in 1..Len(members) : members[i][1] = k][2])
    ELSE None

RECURSIVE setAll(_, _)
\* the loop of _setFiles: one Map.prototype.set per entry of the object
setAll(members, files) ==
    IF Len(files) = 0 THEN members
    ELSE setAll(setKey(members, files[1][1], files[1][2]), Tail(files))

\* one call of the shim as the caller saw it, and the Map after it
FsCall(caller, op, path, content, files, returned, err) ==
    [caller |-> caller, op |-> op, path |-> path, content |-> content,
     files |-> files, result |-> returned, thrown |-> err,
     store |-> sessionFiles']

InitFs ==
    /\ pc = "idle"
    /\ hostEnv = EnvEmpty
    /\ req = [code |-> "", dependencies |-> None, files |-> None, args |-> None]
    /\ sbx = None
    /\ alive = FALSE
    /\ dir = <<>>
    /\ calls = <<>>
    /\ runEnvs = None
    /\ idx = 0
    /\ fileList = <<>>
    /\ execution = None
    /\ stdout = ""
    /\ stderr = ""
    /\ result = None
    /\ error = None
    /\ outputFiles = <<>>
    /\ ret = None
    /\ retPlain = None
    /\ outcome = "pending"
    /\ thrown = ""
    /\ failed = <<>>
    /\ created = <<>>
    /\ cur = 1
    /\ parked = NotStarted
    /\ memory = None
    /\ sessionFiles = <<>>
    /\ fsLog = <<>>

readFile ==
    /\ Len(fsLog) < MaxFsOps
    /\ \E caller \in FsCallers, path \in FsPaths :
          LET content == mapGet(sessionFiles, path)
          IN /\ sessionFiles' = sessionFiles
             /\ fsLog' = Append(fsLog,
                   IF content = None
                   THEN FsCall(caller, "readFile", path, "", <<>>, None,
                               "File not found: " \o path)
                   ELSE FsCall(caller, "readFile", path, "", <<>>, content, ""))
    /\ UNCHANGED <<memory, created, cur, parked, pc, req, hostEnv, sbx, alive,
                   dir, calls, runEnvs, idx, fileList, execution, stdout,
                   stderr, result, error, outputFiles, ret, retPlain, outcome,
                   thrown, failed>>

writeFile ==
    /\ Len(fsLog) < MaxFsOps
    /\ \E caller \in FsCallers, path \in FsPaths, content \in FsContents :
          /\ sessionFiles' = setKey(sessionFiles, path, content)
          /\ fsLog' = Append(fsLog,
                FsCall(caller, "writeFile", path, content, <<>>, None, ""))
    /\ UNCHANGED <<memory, created, cur, parked, pc, req, hostEnv, sbx, alive,
                   dir, calls, runEnvs, idx, fileList, execution, stdout,
                   stderr, result, error, outputFiles, ret, retPlain, outcome,
                   thrown, failed>>

_getFiles ==
    /\ Len(fsLog) < MaxFsOps
    /\ \E caller \in FsCallers :
          /\ sessionFiles' = sessionFiles
          /\ fsLog' = Append(fsLog,
                FsCall(caller, "_getFiles", "", "", sessionFiles, None, ""))
    /\ UNCHANGED <<memory, created, cur, parked, pc, req, hostEnv, sbx, alive,
                   dir, calls, runEnvs, idx, fileList, execution, stdout,
                   stderr, result, error, outputFiles, ret, retPlain, outcome,
                   thrown, failed>>

\* _setFiles without the clear()
_setFiles_NoClear ==
    /\ Len(fsLog) < MaxFsOps
    /\ \E caller \in FsCallers, files \in FsFileMaps :
          /\ sessionFiles' = setAll(sessionFiles, files)
          /\ fsLog' = Append(fsLog,
                FsCall(caller, "_setFiles", "", "", files, None, ""))
    /\ UNCHANGED <<memory, created, cur, parked, pc, req, hostEnv, sbx, alive,
                   dir, calls, runEnvs, idx, fileList, execution, stdout,
                   stderr, result, error, outputFiles, ret, retPlain, outcome,
                   thrown, failed>>

_setFiles ==
    /\ Len(fsLog) < MaxFsOps
    /\ \E caller \in FsCallers, files \in FsFileMaps :
          /\ sessionFiles' = setAll(<<>>, files)
          /\ fsLog' = Append(fsLog,
                FsCall(caller, "_setFiles", "", "", files, None, ""))
    /\ UNCHANGED <<memory, created, cur, parked, pc, req, hostEnv, sbx, alive,
                   dir, calls, runEnvs, idx, fileList, execution, stdout,
                   stderr, result, error, outputFiles, ret, retPlain, outcome,
                   thrown, failed>>

NextFs == readFile \/ writeFile \/ _getFiles \/ _setFiles

SpecFs == InitFs /\ [][NextFs]_vars

-----------------------------------------------------------------------------
(* C30 *)

RECURSIVE Stored(_, _)
\* what the calls of log left stored for p: the content of the last
\* writeFile of p since the last _setFiles, or that _setFiles's entry
Stored(log, p) ==
    IF Len(log) = 0 THEN None
    ELSE LET e == log[Len(log)]
             before == SubSeq(log, 1, Len(log) - 1)
         IN IF e.op = "writeFile" /\ e.path = p THEN Some(e.content)
            ELSE IF e.op = "_setFiles"
                 THEN IF \E i \in 1..Len(e.files) : e.files[i][1] = p
                      THEN Some(e.files[CHOOSE i \in 1..Len(e.files) :
                                             e.files[i][1] = p][2])
                      ELSE None
            ELSE Stored(before, p)

\* the object has exactly the entries that the calls of log left stored
SameEntries(object, log) ==
    /\ \A i \in 1..Len(object) : Stored(log, object[i][1]) = Some(object[i][2])
    /\ \A p \in FsPaths :
          IsSome(Stored(log, p)) => \E i \in 1..Len(object) : object[i][1] = p
    /\ \A i, j \in 1..Len(object) : object[i][1] = object[j][1] => i = j

\* the Map as it was before the n-th call
StoreBefore(n) == IF n = 1 THEN <<>> ELSE fsLog[n - 1].store

====
